---------------------------- MODULE Spec2Model ----------------------------
(***************************************************************************)
(* A model of the OLS MCP server (src/src/ols_mcp_server/server.py and     *)
(* models.py): the IRI encoder, the response normalizer, the typed entity  *)
(* models and the seven tool operations that share one HTTP client.        *)
(*                                                                         *)
(* Python values are modelled as follows.                                  *)
(*   - a str is a TLA+ string (Len, \o and SubSeq act on it per character) *)
(*   - a JSON value is a tagged record: [t |-> "str", s], [t |-> "int", n],*)
(*     [t |-> "bool", b], [t |-> "null"], [t |-> "list", xs] (a sequence   *)
(*     of JSON values) and [t |-> "dict", kv] (a sequence of <<key, value>>*)
(*     pairs, in insertion order, keys unique)                             *)
(*   - the outcome of a call is [kind |-> "return", value |-> ...] or      *)
(*     [kind |-> "raise", exc |-> <exception class>]                       *)
(***************************************************************************)
EXTENDS Integers, Sequences, FiniteSets, TLC

VARIABLES
    calls,      \* tool spec: the invocation slots of the serving loop
    client,     \* tool spec: the shared httpx.AsyncClient
    e_iri,      \* encoder spec: the argument of url_encode_iri
    e_out,      \* encoder spec: its result
    f_data,     \* normalizer spec: the data argument of format_response
    f_max,      \* normalizer spec: the max_items argument
    f_out,      \* normalizer spec: its outcome
    s_docs,     \* search spec: the docs of a search response
    s_n,        \* search spec: the found-count of the response
    s_rows,     \* search spec: the rows argument of search_terms
    s_legacy,   \* search spec: outcome on the legacy-shaped response
    s_flat      \* search spec: outcome on the {elements, totalElements} response

vars == <<calls, client, e_iri, e_out, f_data, f_max, f_out,
          s_docs, s_n, s_rows, s_legacy, s_flat>>

NotRun == [kind |-> "notrun"]

Return(x) == [kind |-> "return", value |-> x]

Raise(e) == [kind |-> "raise", exc |-> e]

Min(a, b) == IF a <= b THEN a ELSE b

Max(a, b) == IF a >= b THEN a ELSE b

-----------------------------------------------------------------------------
(* Bounds of the model.                                                    *)

\* longest IRI string handed to the encoder
MaxIriLen == 5

\* longest elements / docs list of a response
MaxElems == 2

\* largest max_items / rows / size argument
MaxItems == 3

\* number of invocations the serving loop may have in flight at once
MaxCalls == 2

-----------------------------------------------------------------------------
(* Strings: characters, bytes and percent-encoding (urllib.parse).         *)

\* the printable ASCII characters a TLA+ string can hold, in code order
\* from 32 (space) to 95 (underscore), then 97 ('a') to 126 ('~')
AsciiLow == " !\"#$%&'()*+,-./0123456789:;<=>?@ABCDEFGHIJKLMNOPQRSTUVWXYZ[\\]^_"

AsciiHigh == "abcdefghijklmnopqrstuvwxyz{|}~"

\* what a byte outside that table decodes to: a character outside the
\* model's alphabet (U+FFFD for an invalid UTF-8 byte)
OutOfAlphabet == "<U+FFFD>"

CharAt(s, i) == SubSeq(s, i, i)

\* the code of each character of the table
OrdTable ==
    [c \in {CharAt(AsciiLow, i) : i \in 1..Len(AsciiLow)} |->
        31 + (CHOOSE i \in 1..Len(AsciiLow) : CharAt(AsciiLow, i) = c)]
    @@ [c \in {CharAt(AsciiHigh, i) : i \in 1..Len(AsciiHigh)} |->
        96 + (CHOOSE i \in 1..Len(AsciiHigh) : CharAt(AsciiHigh, i) = c)]

\* ord(c) of a character of the table
Ord(c) == OrdTable[c]

\* bytes([b]).decode("utf-8", "replace")
Chr(b) ==
    IF b >= 32 /\ b <= 95 THEN CharAt(AsciiLow, b - 31)
    ELSE IF b >= 97 /\ b <= 126 THEN CharAt(AsciiHigh, b - 96)
    ELSE OutOfAlphabet

HexDigits == "0123456789ABCDEF"

HexLower == "0123456789abcdef"

\* the characters quote_from_bytes never escapes
AlwaysSafe == "ABCDEFGHIJKLMNOPQRSTUVWXYZabcdefghijklmnopqrstuvwxyz0123456789_.-~"

Contains(s, c) == \E i \in 1..Len(s) : CharAt(s, i) = c

AlwaysSafeChars == {CharAt(AlwaysSafe, i) : i \in 1..Len(AlwaysSafe)}

\* '%{:02X}'.format(byte)
PercentByte(b) ==
    "%" \o CharAt(HexDigits, (b \div 16) + 1) \o CharAt(HexDigits, (b % 16) + 1)

RECURSIVE quote(_, _)
\* urllib.parse.quote(string, safe): every character outside the always-safe
\* set and outside safe becomes %XX of its byte
quote(string, safe) ==
    IF string = "" THEN ""
    ELSE LET c == Head(string)
         IN  (IF c \in AlwaysSafeChars \/ Contains(safe, c)
              THEN c ELSE PercentByte(Ord(c)))
             \o quote(Tail(string), safe)

\* the value of each hex digit, upper and lower case
HexTable ==
    [c \in {CharAt(HexDigits, i) : i \in 1..16} |->
        (CHOOSE i \in 1..16 : CharAt(HexDigits, i) = c) - 1]
    @@ [c \in {CharAt(HexLower, i) : i \in 1..16} |->
        (CHOOSE i \in 1..16 : CharAt(HexLower, i) = c) - 1]

IsHex(c) == c \in DOMAIN HexTable

HexVal(c) == HexTable[c]

RECURSIVE unquote(_)
\* urllib.parse.unquote(string): %XX with two hex digits is the byte XX,
\* decoded; any other '%' stays as it is
unquote(string) ==
    IF string = "" THEN ""
    ELSE IF /\ Head(string) = "%"
            /\ Len(string) >= 3
            /\ IsHex(CharAt(string, 2))
            /\ IsHex(CharAt(string, 3))
         THEN Chr(16 * HexVal(CharAt(string, 2)) + HexVal(CharAt(string, 3)))
              \o unquote(SubSeq(string, 4, Len(string)))
         ELSE Head(string) \o unquote(Tail(string))

\* the encoder with urllib's default safe="/" left in place
url_encode_iri_default_safe(iri) == quote(quote(iri, "/"), "/")

\* server.py: url_encode_iri
url_encode_iri(iri) == quote(quote(iri, ""), "")

-----------------------------------------------------------------------------
(* JSON values as json.loads gives them, and Python's view of them.        *)

JStr(s) == [t |-> "str", s |-> s]

JInt(n) == [t |-> "int", n |-> n]

JBool(b) == [t |-> "bool", b |-> b]

JNull == [t |-> "null"]

JList(xs) == [t |-> "list", xs |-> xs]

JDict(pairs) == [t |-> "dict", kv |-> pairs]

\* key in d
HasKey(d, key) == \E i \in 1..Len(d.kv) : d.kv[i][1] = key

\* d[key]
Get(d, key) == d.kv[CHOOSE i \in 1..Len(d.kv) : d.kv[i][1] = key][2]

\* d.get(key, default)
GetOr(d, key, default) == IF HasKey(d, key) THEN Get(d, key) ELSE default

\* seq[:stop] for an int stop (a negative stop counts from the end)
PySlice(seq, stop) ==
    IF stop >= 0 THEN SubSeq(seq, 1, Min(stop, Len(seq)))
    ELSE SubSeq(seq, 1, Max(Len(seq) + stop, 0))

RECURSIVE DigitCount(_)
DigitCount(n) == IF n < 10 THEN 1 ELSE 1 + DigitCount(n \div 10)

RECURSIVE PyReprLen(_)
RECURSIVE SumReprLen(_)
RECURSIVE SumPairLen(_)
\* len(repr(x)); a str of the model holds no quote, backslash or control
\* character, so its repr is the str between two quotes
PyReprLen(x) ==
    CASE x.t = "str" -> Len(x.s) + 2
      [] x.t = "int" -> IF x.n < 0 THEN 1 + DigitCount(0 - x.n) ELSE DigitCount(x.n)
      [] x.t = "bool" -> IF x.b THEN 4 ELSE 5
      [] x.t = "null" -> 4
      [] x.t = "list" -> 2 + SumReprLen(x.xs) + 2 * Max(Len(x.xs) - 1, 0)
      [] x.t = "dict" -> 2 + SumPairLen(x.kv) + 2 * Max(Len(x.kv) - 1, 0)

SumReprLen(xs) == IF xs = <<>> THEN 0 ELSE PyReprLen(Head(xs)) + SumReprLen(Tail(xs))

SumPairLen(ps) ==
    IF ps = <<>> THEN 0
    ELSE Len(Head(ps)[1]) + 2 + 2 + PyReprLen(Head(ps)[2]) + SumPairLen(Tail(ps))

\* len(str(x))
PyStrLen(x) == IF x.t = "str" THEN Len(x.s) ELSE PyReprLen(x)

\* json.dumps(x, indent=2): the text whose parse is x
json_dumps(x) == [t |-> "jsontext", doc |-> x]

-----------------------------------------------------------------------------
(* The response normalizer.                                                *)

\* server.py line 53: the length above which a description is cut
DescLimit == 200

\* lines 45-48: a list description becomes its first element, or ""
FirstOfDescription(description) ==
    IF description.t = "list"
    THEN IF Len(description.xs) > 0 THEN description.xs[1] ELSE JStr("")
    ELSE description

\* line 53 with the cut taken one character late
TruncateDescriptionLate(description) ==
    IF PyStrLen(description) > DescLimit
    THEN CASE description.t = "str" ->
                Return(JStr(SubSeq(description.s, 1, Min(DescLimit + 1, Len(description.s)))
                            \o "..."))
           [] description.t = "dict" -> Raise("KeyError")
           [] OTHER -> Raise("TypeError")
    ELSE Return(description)

\* line 53: description[:200] + "..." if len(str(description)) > 200 else
\* description.  Only a str can be sliced and joined to "..."; a list
\* raises at the +, an int at the [:], a dict at the [:] (KeyError from
\* CPython 3.12 on, TypeError before).
TruncateDescription(description) ==
    IF PyStrLen(description) > DescLimit
    THEN CASE description.t = "str" ->
                Return(JStr(SubSeq(description.s, 1, Min(DescLimit, Len(description.s)))
                            \o "..."))
           [] description.t = "dict" -> Raise("KeyError")
           [] OTHER -> Raise("TypeError")
    ELSE Return(description)

\* lines 42-54: the projection of one dict item
ProjectItem(item) ==
    LET label == GetOr(item, "label", JStr(""))
        iri == GetOr(item, "iri", JStr(""))
        description == FirstOfDescription(GetOr(item, "description", JList(<<>>)))
        cut == TruncateDescription(description)
    IN  IF cut.kind = "raise" THEN cut
        ELSE Return(JDict(<< <<"label", label>>, <<"iri", iri>>,
                             <<"description", cut.value>> >>))

RECURSIVE ProjectAll(_)
\* lines 38-54: the loop over elements; items that are not dicts are
\* skipped, and the first item whose projection raises ends the call
ProjectAll(elements) ==
    IF elements = <<>> THEN Return(<<>>)
    ELSE LET item == Head(elements)
             rest == ProjectAll(Tail(elements))
         IN  IF item.t # "dict" THEN rest
             ELSE LET one == ProjectItem(item)
                  IN  IF one.kind = "raise" THEN one
                      ELSE IF rest.kind = "raise" THEN rest
                      ELSE Return(<<one.value>> \o rest.value)

\* line 35 without the [:max_items]
TakeAll(elements, max_items) == elements

\* line 35: data["elements"][:max_items]
TakeElements(elements, max_items) == PySlice(elements, max_items)

\* server.py: format_response
format_response(data, max_items) ==
    IF data.t = "dict" /\ HasKey(data, "elements")
    THEN LET all == Get(data, "elements")
         IN  IF all.t \notin {"list", "str"}
             THEN \* line 35: the value cannot be sliced
                  Raise(IF all.t = "dict" THEN "KeyError" ELSE "TypeError")
             ELSE LET elements == TakeElements(IF all.t = "list" THEN all.xs ELSE all.s,
                                               max_items)
                      total == GetOr(data, "totalElements", JInt(Len(elements)))
                      \* the characters of a str are not dicts
                      result == IF all.t = "list" THEN ProjectAll(elements)
                                ELSE Return(<<>>)
                  IN  IF result.kind = "raise" THEN result
                      ELSE Return(json_dumps(JDict(<<
                               <<"items", JList(result.value)>>,
                               <<"total_items", total>>,
                               <<"showing", JInt(Len(result.value))>> >>)))
    ELSE Return(json_dumps(data))

-----------------------------------------------------------------------------
(* The encoder on its own.                                                 *)

\* the characters IRIs are drawn from: the unreserved hex digits 2 and 5 (so
\* that an input can look percent-encoded already) and the reserved
\* characters an IRI holds
IriChars == {"2", "5", "%", ":", "/", "#", " "}

RECURSIVE StringsUpTo(_, _)
StringsUpTo(chars, n) ==
    IF n = 0 THEN {""}
    ELSE LET shorter == StringsUpTo(chars, n - 1)
         IN  shorter \cup {s \o c : s \in shorter, c \in chars}

IriStrings == StringsUpTo(IriChars, MaxIriLen)

\* server.py line 22: client = httpx.AsyncClient(timeout=30.0)
NewClient == [is_closed |-> FALSE, timeout |-> 30]

ToolIdle ==
    /\ calls = [i \in 1..MaxCalls |-> [pc |-> "idle"]]
    /\ client = NewClient

EncIdle == e_iri = "" /\ e_out = NotRun

FmtIdle == f_data = [t |-> "null"] /\ f_max = 0 /\ f_out = NotRun

SearchIdle ==
    /\ s_docs = <<>>
    /\ s_n = [t |-> "null"]
    /\ s_rows = 0
    /\ s_legacy = NotRun
    /\ s_flat = NotRun

InitEncode ==
    /\ e_iri \in IriStrings
    /\ e_out = NotRun
    /\ ToolIdle /\ FmtIdle /\ SearchIdle

\* a call of url_encode_iri(e_iri)
Encode ==
    /\ e_out = NotRun
    /\ e_out' = Return(url_encode_iri(e_iri))
    /\ UNCHANGED <<calls, client, e_iri, f_data, f_max, f_out,
                   s_docs, s_n, s_rows, s_legacy, s_flat>>

NextEncode == Encode

SpecEncode == InitEncode /\ [][NextEncode]_vars

-----------------------------------------------------------------------------
(* The normalizer on its own.                                              *)

RECURSIVE Rep(_, _)
\* c * n
Rep(c, n) ==
    IF n = 0 THEN ""
    ELSE LET half == Rep(c, n \div 2)
         IN  half \o half \o (IF n % 2 = 1 THEN c ELSE "")

\* the entries an elements list is drawn from: term-like objects with the
\* description in each of its shapes, and entries that are not objects
EntryPool == <<
    JDict(<< <<"label", JStr("liver")>>, <<"iri", JStr("http://x/1")>>,
             <<"description", JList(<<JStr("abc")>>)>> >>),
    JDict(<< <<"label", JStr("heart")>> >>),
    JDict(<< <<"label", JStr("lung")>>, <<"iri", JStr("http://x/3")>>,
             <<"description", JStr(Rep("a", DescLimit))>> >>),
    JDict(<< <<"iri", JStr("http://x/4")>>,
             <<"description", JStr(Rep("b", DescLimit + 1))>> >>),
    JDict(<< <<"label", JStr("skin")>>,
             <<"description", JList(<<JStr(Rep("c", DescLimit + 3)), JStr("x")>>)>> >>),
    JDict(<< <<"label", JStr("bone")>>, <<"description", JList(<<>>)>> >>),
    JDict(<< <<"label", JInt(5)>>, <<"description", JNull>> >>),
    JDict(<< <<"label", JStr("eye")>>, <<"description", JList(<<JInt(42), JStr("y")>>)>> >>),
    JDict(<< <<"label", JStr("ear")>>,
             <<"description", JDict(<< <<"en", JStr(Rep("d", DescLimit))>> >>)>> >>),
    JDict(<< <<"label", JStr("jaw")>>,
             <<"description", JList(<<JList(<<JStr(Rep("e", DescLimit))>>)>>)>> >>),
    JInt(7),
    JStr("term")
>>

Entries == {EntryPool[i] : i \in 1..Len(EntryPool)}

RECURSIVE ListsUpTo(_, _)
ListsUpTo(S, n) ==
    IF n = 0 THEN {<<>>}
    ELSE LET shorter == ListsUpTo(S, n - 1)
         IN  shorter \cup {Append(xs, x) : xs \in shorter, x \in S}

ElementLists == ListsUpTo(Entries, MaxElems)

\* the values a totalElements / numFound field takes
Totals == {JInt(0), JInt(25), JStr("many"), JNull}

\* the data handed to format_response: objects with an elements list, with
\* and without a declared total; objects whose elements is no list; an
\* object without the key; values that are no object
FormatInputs ==
    {JDict(<< <<"elements", JList(xs)>> >>) : xs \in ElementLists}
    \cup {JDict(<< <<"elements", JList(xs)>>, <<"totalElements", n>> >>) :
            xs \in ElementLists, n \in Totals}
    \cup {JDict(<< <<"elements", x>> >>) :
            x \in {JInt(5), JNull, JStr("abcde"), JDict(<< <<"k", JInt(1)>> >>)}}
    \cup {JDict(<< <<"ontologyId", JStr("efo")>>, <<"title", JStr("EFO")>> >>),
          JList(<<JInt(1), JStr("x")>>), JStr("plain"), JInt(3), JNull}

InitFormat ==
    /\ f_data \in FormatInputs
    /\ f_max \in -1..MaxItems
    /\ f_out = NotRun
    /\ ToolIdle /\ EncIdle /\ SearchIdle

\* a call of format_response(f_data, f_max)
Format ==
    /\ f_out = NotRun
    /\ f_out' = format_response(f_data, f_max)
    /\ UNCHANGED <<calls, client, e_iri, e_out, f_data, f_max,
                   s_docs, s_n, s_rows, s_legacy, s_flat>>

NextFormat == Format

SpecFormat == InitFormat /\ [][NextFormat]_vars

-----------------------------------------------------------------------------
(* search_terms after the response has arrived.                            *)

\* sub in s, for two str
IsSubstring(sub, s) ==
    \E i \in 1..(Len(s) - Len(sub) + 1) : SubSeq(s, i, i + Len(sub) - 1) = sub

\* key in x, as Python evaluates it for any JSON value x: a key of a dict,
\* an element of a list, a substring of a str; other values raise
PyIn(key, x) ==
    CASE x.t = "dict" -> Return(HasKey(x, key))
      [] x.t = "list" -> Return(\E i \in 1..Len(x.xs) : x.xs[i] = JStr(key))
      [] x.t = "str" -> Return(IsSubstring(key, x.s))
      [] OTHER -> Raise("TypeError")

\* len(x)
PyLen(x) ==
    CASE x.t = "list" -> Return(Len(x.xs))
      [] x.t = "str" -> Return(Len(x.s))
      [] x.t = "dict" -> Return(Len(x.kv))
      [] OTHER -> Raise("TypeError")

\* lines 98-101 with the declared count dropped
legacy_envelope_counted(response, docs) ==
    JDict(<< <<"elements", docs>>, <<"totalElements", JInt(PyLen(docs).value)>> >>)

\* lines 98-101: the legacy response as an {elements, totalElements} object
legacy_envelope(response, docs) ==
    JDict(<< <<"elements", docs>>,
             <<"totalElements", GetOr(response, "numFound", JInt(PyLen(docs).value))>> >>)

\* lines 95-104: what search_terms makes of the parsed body
search_terms_body(data, rows) ==
    LET has_response == PyIn("response", data)
    IN  IF has_response.kind = "raise" THEN has_response
        ELSE IF ~has_response.value THEN format_response(data, rows)
        ELSE IF data.t # "dict" THEN Raise("TypeError")  \* data["response"]
        ELSE LET response == Get(data, "response")
                 has_docs == PyIn("docs", response)
             IN  IF has_docs.kind = "raise" THEN has_docs
                 ELSE IF ~has_docs.value THEN format_response(data, rows)
                 ELSE IF response.t # "dict" THEN Raise("TypeError")  \* ["docs"]
                 ELSE LET docs == Get(response, "docs")
                      IN  IF PyLen(docs).kind = "raise" THEN PyLen(docs)
                          ELSE format_response(legacy_envelope(response, docs), rows)

-----------------------------------------------------------------------------
(* search_terms on the two shapes of one search result.                    *)

LegacyShape(docs, n) ==
    JDict(<< <<"response", JDict(<< <<"docs", JList(docs)>>, <<"numFound", n>> >>)>> >>)

FlatShape(docs, n) ==
    JDict(<< <<"elements", JList(docs)>>, <<"totalElements", n>> >>)

InitSearch ==
    /\ s_docs \in ElementLists
    /\ s_n \in Totals
    /\ s_rows \in -1..MaxItems
    /\ s_legacy = NotRun
    /\ s_flat = NotRun
    /\ ToolIdle /\ EncIdle /\ FmtIdle

\* search_terms receives the result in the legacy shape
SearchLegacy ==
    /\ s_legacy = NotRun
    /\ s_legacy' = search_terms_body(LegacyShape(s_docs, s_n), s_rows)
    /\ UNCHANGED <<calls, client, e_iri, e_out, f_data, f_max, f_out,
                   s_docs, s_n, s_rows, s_flat>>

\* search_terms receives the same result in the {elements, totalElements} shape
SearchFlat ==
    /\ s_flat = NotRun
    /\ s_flat' = search_terms_body(FlatShape(s_docs, s_n), s_rows)
    /\ UNCHANGED <<calls, client, e_iri, e_out, f_data, f_max, f_out,
                   s_docs, s_n, s_rows, s_legacy>>

NextSearch == SearchLegacy \/ SearchFlat

SpecSearch == InitSearch /\ [][NextSearch]_vars

-----------------------------------------------------------------------------
(* The entity models (models.py) and pydantic's model_validate.            *)

\* a field: its attribute name, the key it is read from (its alias when it
\* has one), its type and whether it is required (Field(...))
FieldOf(name, key, type, required) ==
    [name |-> name, key |-> key, type |-> type, required |-> required]

\* models.py: class OntologyInfo
OntologyInfo == <<
    FieldOf("id", "ontologyId", "str", TRUE),
    FieldOf("title", "title", "str", TRUE),
    FieldOf("version", "version", "str", FALSE),
    FieldOf("description", "description", "str", FALSE),
    FieldOf("domain", "domain", "str", FALSE),
    FieldOf("homepage", "homepage", "url", FALSE),
    FieldOf("preferred_prefix", "preferredPrefix", "str", FALSE),
    FieldOf("number_of_terms", "number_of_terms", "int", FALSE),
    FieldOf("number_of_classes", "numberOfClasses", "int", FALSE),
    FieldOf("repository", "repository", "url", FALSE)
>>

\* models.py: class TermInfo
TermInfo == <<
    FieldOf("iri", "iri", "url", TRUE),
    FieldOf("ontology_name", "ontology_name", "str", TRUE),
    FieldOf("short_form", "short_form", "str", TRUE),
    FieldOf("label", "label", "str", TRUE),
    FieldOf("obo_id", "oboId", "str", FALSE),
    FieldOf("is_obsolete", "is_obsolete", "bool", FALSE)
>>

\* models.py: class DetailedTermInfo(TermInfo)
DetailedTermInfo == TermInfo \o <<
    FieldOf("description", "description", "list_str", FALSE),
    FieldOf("synonyms", "synonyms", "list_str", FALSE)
>>

StartsWith(s, prefix) == Len(s) >= Len(prefix) /\ SubSeq(s, 1, Len(prefix)) = prefix

\* HttpUrl: an http or https URL with a host
IsHttpUrl(s) ==
    \/ StartsWith(s, "http://") /\ Len(s) > Len("http://")
    \/ StartsWith(s, "https://") /\ Len(s) > Len("https://")

\* whether a JSON value x validates as the field type.  Each type takes the
\* JSON values of its own kind; pydantic's lax coercions from other kinds
\* (digits in a str for an int, 0 and 1 for a bool) lie outside the answers
\* the remote service gives here.
TypeOk(type, x) ==
    CASE type = "str" -> x.t = "str"
      [] type = "int" -> x.t = "int"
      [] type = "bool" -> x.t = "bool"
      [] type = "url" -> x.t = "str" /\ IsHttpUrl(x.s)
      [] type = "list_str" ->
            x.t = "list" /\ \A i \in 1..Len(x.xs) : x.xs[i].t = "str"

\* one field against the data: absent is an error for a required field;
\* None is accepted by an Optional field only
FieldOk(f, data) ==
    IF ~HasKey(data, f.key) THEN ~f.required
    ELSE LET x == Get(data, f.key)
         IN  IF x.t = "null" THEN ~f.required ELSE TypeOk(f.type, x)

RECURSIVE FieldValues(_, _)
\* the attributes of the instance: the value read, or the default (None;
\* is_obsolete defaults to False)
FieldValues(fields, data) ==
    IF fields = <<>> THEN <<>>
    ELSE LET f == Head(fields)
             x == IF HasKey(data, f.key) THEN Get(data, f.key)
                  ELSE IF f.name = "is_obsolete" THEN JBool(FALSE) ELSE JNull
         IN  <<<<f.name, x>>>> \o FieldValues(Tail(fields), data)

\* BaseModel.model_validate(data): an instance, or ValidationError
model_validate(cls, fields, data) ==
    IF data.t # "dict" THEN Raise("ValidationError")
    ELSE IF \E i \in 1..Len(fields) : ~FieldOk(fields[i], data)
         THEN Raise("ValidationError")
         ELSE Return([t |-> "model", cls |-> cls, attrs |-> FieldValues(fields, data)])

-----------------------------------------------------------------------------
(* The outbound GET (httpx) as the handlers see it.                        *)

\* server.py line 19
OLS_BASE_URL == "https://www.ebi.ac.uk/ols4"

\* the faults client.get raises: a transport error and a timeout, both
\* subclasses of httpx.HTTPError
TransportFaults == {"ConnectError", "ReadTimeout"}

\* response.is_success
IsSuccess(status) == status >= 200 /\ status <= 299

\* the try block with raise_for_status left out: only the faults of
\* client.get are met
SendWithoutStatusCheck(http) ==
    IF http.kind = "fault" THEN http.exc ELSE ""

\* lines 91-92: await client.get(...); response.raise_for_status().  The
\* exception the try block meets before the body is read: the fault of
\* client.get, or HTTPStatusError from raise_for_status; "" when none
SendAndCheck(http) ==
    IF http.kind = "fault" THEN http.exc
    ELSE IF ~IsSuccess(http.status) THEN "HTTPStatusError"
    ELSE ""

\* except httpx.HTTPError: the classes it catches
CaughtByHTTPError(exc) == exc \in {"ConnectError", "ReadTimeout", "HTTPStatusError"}

\* str(e) of the exception met
StrOfFault(exc, http, url) ==
    CASE exc = "ConnectError" -> "All connection attempts failed"
      [] exc = "ReadTimeout" -> ""
      [] exc = "HTTPStatusError" ->
            (IF http.status >= 500 THEN "Server error '500 Internal Server Error'"
             ELSE "Client error '404 Not Found'") \o " for url '" \o url \o "'"

\* response.json(): the parsed body, or JSONDecodeError
ResponseJson(http) ==
    IF http.body.json THEN Return(http.body.doc) ELSE Raise("JSONDecodeError")

\* the shape shared by the seven handlers (e.g. lines 90-107): the except
\* clause turns a caught exception into the handler's error string, any
\* other exception propagates; otherwise the body is parsed and handed to
\* the rest of the try block
TryGet(http, url, error_prefix, parsed) ==
    LET exc == SendAndCheck(http)
    IN  IF exc # ""
        THEN IF CaughtByHTTPError(exc)
             THEN Return(JStr(error_prefix \o StrOfFault(exc, http, url)))
             ELSE Raise(exc)
        ELSE IF ResponseJson(http).kind = "raise" THEN ResponseJson(http)
        ELSE parsed

-----------------------------------------------------------------------------
(* The seven tool operations: the request each builds, and what each makes *)
(* of the answer.                                                          *)

\* if x: for an Optional[str] argument
Truthy(x) == x.t = "str" /\ x.s # ""

\* lines 77-88
search_terms_request(a) ==
    [url |-> OLS_BASE_URL \o "/api/search",
     params |-> << <<"q", JStr(a.query)>>, <<"rows", JInt(a.rows)>>,
                   <<"start", JInt(0)>>, <<"exact", JBool(a.exact_match)>>,
                   <<"obsoletes", JBool(a.include_obsolete)>> >>
                \o (IF Truthy(a.ontology) THEN << <<"ontology", a.ontology>> >>
                    ELSE <<>>)]

\* lines 90-107
search_terms(a, req, http) ==
    TryGet(http, req.url, "Error searching terms: ",
           search_terms_body(http.body.doc, a.rows))

\* line 115
get_ontology_info_request(a) ==
    [url |-> OLS_BASE_URL \o "/api/v2/ontologies/" \o a.ontology_id,
     params |-> <<>>]

\* lines 117-124
get_ontology_info(a, req, http) ==
    TryGet(http, req.url, "Error getting ontology info: ",
           model_validate("OntologyInfo", OntologyInfo, http.body.doc))

\* lines 134-142
search_ontologies_request(a) ==
    [url |-> OLS_BASE_URL \o "/api/v2/ontologies",
     params |-> << <<"page", JInt(a.page)>>, <<"size", JInt(a.size)>> >>
                \o (IF Truthy(a.search) THEN << <<"search", a.search>> >>
                    ELSE <<>>)]

\* lines 144-151
search_ontologies(a, req, http) ==
    TryGet(http, req.url, "Error searching ontologies: ",
           format_response(http.body.doc, a.size))

\* line 164 and the params of line 167
get_term_info_request(a) ==
    [url |-> OLS_BASE_URL \o "/api/terms", params |-> << <<"id", JStr(a.id)>> >>]

\* terms[0]
FirstOf(terms) ==
    CASE terms.t = "list" ->
            IF Len(terms.xs) > 0 THEN Return(terms.xs[1]) ELSE Raise("IndexError")
      [] terms.t = "str" ->
            IF Len(terms.s) > 0 THEN Return(JStr(CharAt(terms.s, 1)))
            ELSE Raise("IndexError")
      [] terms.t = "dict" -> Raise("KeyError")
      [] OTHER -> Raise("TypeError")

\* lines 170-174: what get_term_info makes of the parsed body
get_term_info_body(data, id) ==
    IF data.t # "dict" THEN Raise("AttributeError")  \* data.get
    ELSE LET embedded == GetOr(data, "_embedded", JDict(<<>>))
             has_terms == PyIn("terms", embedded)
         IN  IF has_terms.kind = "raise" THEN has_terms
             ELSE IF ~has_terms.value
                  THEN Return(JStr("Term with ID '" \o id \o "' not found in OLS."))
             ELSE IF embedded.t # "dict" THEN Raise("TypeError")  \* ["terms"]
             ELSE LET first == FirstOf(Get(embedded, "terms"))
                  IN  IF first.kind = "raise" THEN first
                      ELSE model_validate("DetailedTermInfo", DetailedTermInfo,
                                          first.value)

\* lines 166-177
get_term_info(a, req, http) ==
    TryGet(http, req.url, "Error getting term info: ",
           get_term_info_body(http.body.doc, a.id))

\* lines 199-207, 237-245, 273-280: the URL of a class sub-resource; the
\* IRI is double-encoded into one path segment
ClassUrl(a, resource) ==
    OLS_BASE_URL \o "/api/v2/ontologies/" \o a.ontology \o "/classes/"
    \o url_encode_iri(a.term_iri) \o "/" \o resource

\* lines 199-207
get_term_children_request(a) ==
    [url |-> ClassUrl(a, "children"),
     params |-> << <<"page", JInt(0)>>, <<"size", JInt(a.size)>>,
                   <<"includeObsoleteEntities", JBool(a.include_obsolete)>> >>]

\* lines 209-216
get_term_children(a, req, http) ==
    TryGet(http, req.url, "Error getting term children: ",
           format_response(http.body.doc, a.size))

\* lines 237-245
get_term_ancestors_request(a) ==
    [url |-> ClassUrl(a, "ancestors"),
     params |-> << <<"page", JInt(0)>>, <<"size", JInt(a.size)>>,
                   <<"includeObsoleteEntities", JBool(a.include_obsolete)>> >>]

\* lines 247-254
get_term_ancestors(a, req, http) ==
    TryGet(http, req.url, "Error getting term ancestors: ",
           format_response(http.body.doc, a.size))

\* lines 273-280
find_similar_terms_request(a) ==
    [url |-> ClassUrl(a, "llm_similar"),
     params |-> << <<"page", JInt(0)>>, <<"size", JInt(a.size)>> >>]

\* lines 282-289
find_similar_terms(a, req, http) ==
    TryGet(http, req.url, "Error finding similar terms: ",
           format_response(http.body.doc, a.size))

\* the handler registered under each tool name, resumed with the answer
Handle(op, a, req, http) ==
    CASE op = "search_terms" -> search_terms(a, req, http)
      [] op = "get_ontology_info" -> get_ontology_info(a, req, http)
      [] op = "search_ontologies" -> search_ontologies(a, req, http)
      [] op = "get_term_info" -> get_term_info(a, req, http)
      [] op = "get_term_children" -> get_term_children(a, req, http)
      [] op = "get_term_ancestors" -> get_term_ancestors(a, req, http)
      [] op = "find_similar_terms" -> find_similar_terms(a, req, http)

-----------------------------------------------------------------------------
(* The remote service: what a GET of each tool can be answered with.       *)

Fault(exc) == [kind |-> "fault", exc |-> exc]

JsonBody(doc) == [json |-> TRUE, doc |-> doc]

NotJsonBody == [json |-> FALSE]

Response(status, body) == [kind |-> "response", status |-> status, body |-> body]

\* answers any endpoint can give: a transport fault, a timeout, an error
\* status, a success whose body is no JSON
CommonAnswers ==
    {Fault(exc) : exc \in TransportFaults}
    \cup {Response(404, NotJsonBody), Response(200, NotJsonBody)}

PagedBody ==
    JDict(<< <<"elements", JList(<<EntryPool[1], EntryPool[2]>>)>>,
             <<"totalElements", JInt(25)>> >>)

LegacyBody == LegacyShape(<<EntryPool[1]>>, JInt(3))

OntologyBody ==
    JDict(<< <<"ontologyId", JStr("efo")>>, <<"title", JStr("Experimental Factor Ontology")>>,
             <<"homepage", JStr("http://www.ebi.ac.uk/efo")>>,
             <<"numberOfClasses", JInt(100)>> >>)

OntologyBodyNoTitle == JDict(<< <<"ontologyId", JStr("efo")>> >>)

TermDoc ==
    JDict(<< <<"iri", JStr("http://purl.obolibrary.org/obo/DUO_0000017")>>,
             <<"ontology_name", JStr("duo")>>, <<"short_form", JStr("DUO_0000017")>>,
             <<"label", JStr("data use modifier")>>,
             <<"description", JList(<<JStr("A modifier")>>)>> >>)

TermDocNoLabel ==
    JDict(<< <<"iri", JStr("http://purl.obolibrary.org/obo/DUO_0000017")>>,
             <<"ontology_name", JStr("duo")>>, <<"short_form", JStr("DUO_0000017")>> >>)

Embedded(terms) == JDict(<< <<"_embedded", JDict(<< <<"terms", JList(terms)>> >>)>> >>)

NoEmbeddedBody == JDict(<< <<"page", JDict(<< <<"totalElements", JInt(0)>> >>)>> >>)

Ops == {"search_terms", "get_ontology_info", "search_ontologies", "get_term_info",
        "get_term_children", "get_term_ancestors", "find_similar_terms"}

\* the successful JSON answers of each endpoint, well-formed and not
JsonAnswers(op) ==
    CASE op = "search_terms" -> {PagedBody, LegacyBody}
      [] op = "get_ontology_info" -> {OntologyBody, OntologyBodyNoTitle}
      [] op = "get_term_info" ->
            {Embedded(<<>>), Embedded(<<TermDoc>>), Embedded(<<TermDocNoLabel>>),
             NoEmbeddedBody}
      [] OTHER -> {PagedBody}

Answers(op) == CommonAnswers \cup {Response(200, JsonBody(doc)) : doc \in JsonAnswers(op)}

-----------------------------------------------------------------------------
(* The serving loop: invocations in flight over the one shared client.     *)

Calls == 1..MaxCalls

\* a handler that wraps its request in "async with client" closes the
\* shared client when it leaves
ClientClosedAfterUse(c) == [c EXCEPT !.is_closed = TRUE]

\* the shared client after a handler has used it: the handlers call
\* client.get and nothing else
ClientAfterUse(c) == c

\* the invocation once its GET has been answered: the handler's outcome
Completed(call, http) ==
    [pc |-> "done", op |-> call.op, args |-> call.args, request |-> call.request,
     gets |-> call.gets, answered |-> call.answered + 1, http |-> http,
     outcome |-> Handle(call.op, call.args, call.request, http)]

\* a handler that sends its GET once more when the first one fails
AfterAnswerRetrying(call, http) ==
    IF SendAndCheck(http) # "" /\ call.gets < 2
    THEN [call EXCEPT !.gets = @ + 1, !.answered = @ + 1]
    ELSE Completed(call, http)

\* there is no loop around a handler's try block: the answer to its GET,
\* whatever it is, ends the invocation
AfterAnswer(call, http) == Completed(call, http)

\* the handler runs to its await: the request is built and sent.  On a
\* closed client, client.get raises RuntimeError before anything is sent.
Start(i, op, a, req) ==
    /\ calls[i].pc = "idle"
    /\ calls' = [calls EXCEPT ![i] =
                    IF client.is_closed
                    THEN [pc |-> "done", op |-> op, args |-> a, request |-> req,
                          gets |-> 0, answered |-> 0, http |-> [kind |-> "none"],
                          outcome |-> Raise("RuntimeError")]
                    ELSE [pc |-> "awaiting", op |-> op, args |-> a, request |-> req,
                          gets |-> 1, answered |-> 0]]
    /\ UNCHANGED <<client, e_iri, e_out, f_data, f_max, f_out,
                   s_docs, s_n, s_rows, s_legacy, s_flat>>

TermIris == {"http://purl.obolibrary.org/obo/DUO_0000017"}

CallSearchTerms(i) ==
    \E ontology \in {JNull, JStr("efo")} :
        LET a == [query |-> "liver", ontology |-> ontology, exact_match |-> FALSE,
                  include_obsolete |-> FALSE, rows |-> 1]
        IN  Start(i, "search_terms", a, search_terms_request(a))

CallGetOntologyInfo(i) ==
    LET a == [ontology_id |-> "efo"]
    IN  Start(i, "get_ontology_info", a, get_ontology_info_request(a))

CallSearchOntologies(i) ==
    LET a == [search |-> JStr("factor"), page |-> 0, size |-> 20]
    IN  Start(i, "search_ontologies", a, search_ontologies_request(a))

CallGetTermInfo(i) ==
    \E id \in {"DUO_0000017", "DUO:0000017"} :
        LET a == [id |-> id]
        IN  Start(i, "get_term_info", a, get_term_info_request(a))

CallGetTermChildren(i) ==
    \E iri \in TermIris :
        LET a == [term_iri |-> iri, ontology |-> "duo", include_obsolete |-> FALSE,
                  size |-> 20]
        IN  Start(i, "get_term_children", a, get_term_children_request(a))

CallGetTermAncestors(i) ==
    \E iri \in TermIris :
        LET a == [term_iri |-> iri, ontology |-> "duo", include_obsolete |-> FALSE,
                  size |-> 20]
        IN  Start(i, "get_term_ancestors", a, get_term_ancestors_request(a))

CallFindSimilarTerms(i) ==
    \E iri \in TermIris :
        LET a == [term_iri |-> iri, ontology |-> "duo", size |-> 10]
        IN  Start(i, "find_similar_terms", a, find_similar_terms_request(a))

\* the GET of invocation i is answered and its handler resumes and ends
Resume(i) ==
    /\ calls[i].pc = "awaiting"
    /\ \E http \in Answers(calls[i].op) :
          calls' = [calls EXCEPT ![i] = AfterAnswer(calls[i], http)]
    /\ client' = ClientAfterUse(client)
    /\ UNCHANGED <<e_iri, e_out, f_data, f_max, f_out,
                   s_docs, s_n, s_rows, s_legacy, s_flat>>

\* the serving loop hands the outcome to the caller; the slot is free again
Collect(i) ==
    /\ calls[i].pc = "done"
    /\ calls' = [calls EXCEPT ![i] = [pc |-> "idle"]]
    /\ UNCHANGED <<client, e_iri, e_out, f_data, f_max, f_out,
                   s_docs, s_n, s_rows, s_legacy, s_flat>>

Init == ToolIdle /\ EncIdle /\ FmtIdle /\ SearchIdle

Next ==
    \E i \in Calls :
        \/ CallSearchTerms(i)
        \/ CallGetOntologyInfo(i)
        \/ CallSearchOntologies(i)
        \/ CallGetTermInfo(i)
        \/ CallGetTermChildren(i)
        \/ CallGetTermAncestors(i)
        \/ CallFindSimilarTerms(i)
        \/ Resume(i)
        \/ Collect(i)

Spec == Init /\ [][Next]_vars

-----------------------------------------------------------------------------
(* Properties of the tool operations (under Spec).                         *)

Done(i) == calls[i].pc = "done"

\* the GET ended in a transport error, a timeout or a non-success status
HttpFailed(http) ==
    \/ http.kind = "fault"
    \/ http.kind = "response" /\ (http.status < 200 \/ http.status > 299)

\* the words by which an error string names its operation
ErrorPhrase ==
    [search_terms |-> "searching terms",
     get_ontology_info |-> "getting ontology info",
     search_ontologies |-> "searching ontologies",
     get_term_info |-> "getting term info",
     get_term_children |-> "getting term children",
     get_term_ancestors |-> "getting term ancestors",
     find_similar_terms |-> "finding similar terms"]

\* C1: whenever the GET of an invocation of any of the seven operations
\* ends in a transport error, a timeout or a non-success status, the
\* invocation returns (it does not raise) a string that starts with
\* "Error " and names the operation.
C1_FailureIsErrorString ==
    \A i \in Calls :
        (Done(i) /\ HttpFailed(calls[i].http)) =>
            /\ calls[i].outcome.kind = "return"
            /\ calls[i].outcome.value.t = "str"
            /\ StartsWith(calls[i].outcome.value.s, "Error ")
            /\ IsSubstring(ErrorPhrase[calls[i].op], calls[i].outcome.value.s)

\* a timed-out get_term_children has returned its error string
C1_Witness ==
    \E i \in Calls :
        /\ Done(i)
        /\ calls[i].op = "get_term_children"
        /\ calls[i].http = Fault("ReadTimeout")
        /\ calls[i].outcome = Return(JStr("Error getting term children: "))

\* the answer is a success whose body holds an empty embedded terms list
EmptyTermsAnswer(http) ==
    /\ http.kind = "response"
    /\ IsSuccess(http.status)
    /\ http.body.json
    /\ http.body.doc = Embedded(<<>>)

\* C2: get_term_info, answered with a success whose embedded terms list is
\* empty, returns a string that holds the requested id and says that the
\* term was not found; it does not raise.
C2_EmptyTermsIsNotFound ==
    \A i \in Calls :
        (Done(i) /\ calls[i].op = "get_term_info" /\ EmptyTermsAnswer(calls[i].http)) =>
            /\ calls[i].outcome.kind = "return"
            /\ calls[i].outcome.value.t = "str"
            /\ IsSubstring(calls[i].args.id, calls[i].outcome.value.s)
            /\ IsSubstring("not found", calls[i].outcome.value.s)

\* the answer is a success whose body lacks a required field of the model
\* the operation parses it into: no title for get_ontology_info, no label
\* in the first embedded term for get_term_info
LacksRequiredField(op, http) ==
    /\ http.kind = "response"
    /\ IsSuccess(http.status)
    /\ http.body.json
    /\ \/ op = "get_ontology_info" /\ http.body.doc = OntologyBodyNoTitle
       \/ op = "get_term_info" /\ http.body.doc = Embedded(<<TermDocNoLabel>>)

\* C3: when get_ontology_info or get_term_info is answered with a success
\* whose body lacks a required model field, the invocation returns an error
\* string (the parse failure does not propagate as a fault).
C3_ParseFailureIsErrorString ==
    \A i \in Calls :
        (Done(i) /\ LacksRequiredField(calls[i].op, calls[i].http)) =>
            /\ calls[i].outcome.kind = "return"
            /\ calls[i].outcome.value.t = "str"

\* C9: every invocation sends at most one GET, never sends it again after
\* a failure, and has an outcome only once the GET it sent was answered.
C9_OneGetThenResult ==
    \A i \in Calls :
        /\ calls[i].pc = "awaiting" =>
              calls[i].gets = 1 /\ calls[i].answered = 0
        /\ Done(i) =>
              /\ calls[i].gets <= 1
              /\ calls[i].answered = calls[i].gets
              /\ calls[i].gets = 1 => calls[i].http.kind \in {"fault", "response"}

\* an invocation whose one GET timed out has ended
C9_Witness ==
    \E i \in Calls :
        /\ Done(i)
        /\ calls[i].http = Fault("ReadTimeout")
        /\ calls[i].gets = 1
        /\ calls[i].answered = 1

\* the shared client is as constructed, every ended invocation had its GET
\* sent, and two ended invocations of the same operation with the same
\* arguments and the same answer have the same outcome
IsolatedState ==
    /\ client = NewClient
    /\ \A i \in Calls : Done(i) => calls[i].gets = 1
    /\ \A i, j \in Calls :
          (/\ Done(i) /\ Done(j)
           /\ calls[i].op = calls[j].op
           /\ calls[i].args = calls[j].args
           /\ calls[i].http = calls[j].http) => calls[i].outcome = calls[j].outcome

\* a step of one invocation leaves every other invocation as it was
IsolatedStep ==
    \A i \in Calls :
        calls'[i] # calls[i] => \A j \in Calls \ {i} : calls'[j] = calls[j]

\* C10: under any interleaving, an invocation's outcome depends only on its
\* own arguments and its own answer; the invocations share no state that
\* changes, and a failure of one changes neither another invocation nor
\* the serving of later ones.
C10_Isolation == [](IsolatedState) /\ [][IsolatedStep]_vars

\* one invocation has failed while another one, started before the failure
\* was collected, has succeeded
C10_Witness ==
    \E i, j \in Calls :
        /\ Done(i) /\ Done(j)
        /\ HttpFailed(calls[i].http)
        /\ calls[j].op = "get_ontology_info"
        /\ calls[j].outcome.kind = "return"
        /\ calls[j].outcome.value.t = "model"

-----------------------------------------------------------------------------
(* Properties of the normalizer (under SpecFormat).                        *)

\* f_data is an object with an elements list
HasElementList ==
    /\ f_data.t = "dict"
    /\ HasKey(f_data, "elements")
    /\ Get(f_data, "elements").t = "list"

Elems == Get(f_data, "elements").xs

\* the elements the call looks at, and the objects among them
Taken == PySlice(Elems, f_max)

IsObject(x) == x.t = "dict"

TakenObjects == SelectSeq(Taken, IsObject)

OutItems == Get(f_out.value.doc, "items").xs

OutShowing == Get(f_out.value.doc, "showing")

\* item k of the output carries the label and the iri of object k
SameOrder(objects) ==
    \A k \in 1..Len(OutItems) :
        /\ Get(OutItems[k], "label") = GetOr(objects[k], "label", JStr(""))
        /\ Get(OutItems[k], "iri") = GetOr(objects[k], "iri", JStr(""))

\* C4 as stated: the output has exactly min(length, maxItems) items and
\* showing is that number.
C4_Original ==
    (HasElementList /\ f_max >= 0 /\ f_out.kind = "return") =>
        /\ Len(OutItems) = Min(Len(Elems), f_max)
        /\ OutShowing = JInt(Min(Len(Elems), f_max))

\* an object whose description (the first element, for a list) is no
\* string and has a string form of more than 200 characters
HasUncuttableDescription(x) ==
    /\ IsObject(x)
    /\ LET d == FirstOfDescription(GetOr(x, "description", JList(<<>>)))
       IN  d.t # "str" /\ PyStrLen(d) > 200

\* C4, amended: for an object with an elements list and maxItems >= 0, the
\* call raises exactly when one of the first min(length, maxItems)
\* elements is an object with such a description; otherwise the items of
\* the output are, in input order, the projections of the objects among
\* these elements, and showing is their number; that number is
\* min(length, maxItems) when all of these elements are objects.
C4_ItemsAreTakenObjects ==
    (HasElementList /\ f_max >= 0 /\ f_out # NotRun) =>
        /\ Len(Taken) = Min(Len(Elems), f_max)
        /\ IF \E k \in 1..Len(Taken) : HasUncuttableDescription(Taken[k])
           THEN f_out.kind = "raise"
           ELSE /\ f_out.kind = "return"
                /\ Len(OutItems) = Len(TakenObjects)
                /\ OutShowing = JInt(Len(TakenObjects))
                /\ SameOrder(TakenObjects)
                /\ (\A k \in 1..Len(Taken) : IsObject(Taken[k])) =>
                      Len(OutItems) = Min(Len(Elems), f_max)

\* a list of two is cut to its first element, which is no object: nothing
\* is shown
C4_Witness ==
    /\ HasElementList
    /\ f_out.kind = "return"
    /\ f_max = 1
    /\ Len(Elems) = 2
    /\ ~IsObject(Elems[1])
    /\ IsObject(Elems[2])
    /\ OutShowing = JInt(0)

\* C5: format_response has no error outcome: whatever the data and
\* max_items, it returns a serialized JSON string.
C5_NeverRaises ==
    f_out # NotRun => (f_out.kind = "return" /\ f_out.value.t = "jsontext")

\* the description of object k as the input gives it (a list when absent)
DescriptionIn(k) == GetOr(TakenObjects[k], "description", JList(<<>>))

DescriptionOut(k) == Get(OutItems[k], "description")

Cut(str) == JStr(SubSeq(str, 1, 200) \o "...")

\* C6 as stated: a non-empty description list yields its first element.
C6_Original ==
    (HasElementList /\ f_out.kind = "return") =>
        \A k \in 1..Len(OutItems) :
            LET d == DescriptionIn(k)
            IN  /\ (d.t = "str" /\ Len(d.s) > 200) => DescriptionOut(k) = Cut(d.s)
                /\ (d.t = "str" /\ Len(d.s) <= 200) => DescriptionOut(k) = d
                /\ (d.t = "list" /\ Len(d.xs) > 0) => DescriptionOut(k) = d.xs[1]
                /\ (d.t = "list" /\ Len(d.xs) = 0) => DescriptionOut(k) = JStr("")

\* C6, amended: for every projected element, a description string longer
\* than 200 characters is output as its first 200 characters followed by
\* "..."; one of 200 characters or fewer is output unchanged; a non-empty
\* description list yields its first element, cut in the same way when
\* that element is a string longer than 200 characters; an empty list, or
\* an absent description, yields "".
C6_DescriptionRule ==
    (HasElementList /\ f_out.kind = "return") =>
        \A k \in 1..Len(OutItems) :
            LET d == DescriptionIn(k)
            IN  /\ (d.t = "str" /\ Len(d.s) > 200) => DescriptionOut(k) = Cut(d.s)
                /\ (d.t = "str" /\ Len(d.s) <= 200) => DescriptionOut(k) = d
                /\ (d.t = "list" /\ Len(d.xs) > 0) =>
                      DescriptionOut(k) =
                          IF d.xs[1].t = "str" /\ Len(d.xs[1].s) > 200
                          THEN Cut(d.xs[1].s) ELSE d.xs[1]
                /\ (d.t = "list" /\ Len(d.xs) = 0) => DescriptionOut(k) = JStr("")

\* an element whose description list starts with a string of 203
\* characters has been projected: the output holds 200 of them and "..."
C6_Witness ==
    /\ HasElementList
    /\ f_out.kind = "return"
    /\ \E k \in 1..Len(OutItems) :
          /\ DescriptionIn(k) = JList(<<JStr(Rep("c", 203)), JStr("x")>>)
          /\ DescriptionOut(k) = JStr(Rep("c", 200) \o "...")

-----------------------------------------------------------------------------
(* Property of search_terms on the two response shapes (under SpecSearch). *)

\* C7: for every docs list, found-count and rows, search_terms gives the
\* same outcome for the legacy-shaped response as for the {elements,
\* totalElements} response with the same docs and count.
C7_SameEnvelope ==
    (s_legacy # NotRun /\ s_flat # NotRun) => s_legacy = s_flat

\* both shapes of a two-doc result with a declared count were normalized
\* under rows = 1, to an envelope that declares that count
C7_Witness ==
    /\ s_legacy.kind = "return"
    /\ s_flat.kind = "return"
    /\ Len(s_docs) = 2
    /\ s_rows = 1
    /\ s_n = JInt(25)
    /\ Get(s_legacy.value.doc, "total_items") = JInt(25)

-----------------------------------------------------------------------------
(* Property of the encoder (under SpecEncode).                             *)

\* C8: url_encode_iri(x) is the single-pass percent-encoding with no safe
\* characters applied to the single-pass encoding of x; decoding it twice
\* gives x back; the empty string encodes to the empty string.
C8_DoubleEncoding ==
    e_out # NotRun =>
        /\ e_out.value = quote(quote(e_iri, ""), "")
        /\ unquote(unquote(e_out.value)) = e_iri
        /\ (e_iri = "" => e_out.value = "")

\* a string holding ':', '/', '#', '%' and a space has been encoded
C8_Witness ==
    /\ e_iri = ":/#% "
    /\ e_out = Return("%253A%252F%2523%2525%2520")

=============================================================================
